---- MODULE Spec2Model ----
(***************************************************************************)
(* SimplE (poem/models/unimodal/simple.py) and the LiteralE combinations   *)
(* (pykeen/models/multimodal/combinations.py) as a state machine.          *)
(*                                                                         *)
(* Objects live on a heap and are named by their position in it, so that   *)
(* two attributes holding the same object can be told from two attributes *)
(* holding equal objects.  Embedding weights are integers; a score, which  *)
(* the code halves, is an exact fraction num/den.  Floating-point rounding *)
(* is not modelled.                                                        *)
(***************************************************************************)
EXTENDS Integers, Sequences, FiniteSets, TLC

\* Bounds of the model.
MaxEntities == 2
MaxRelations == 2
MaxDim == 2
MaxSeed == 1
MaxBatch == 2
MaxLiterals == 1

\* The reference held by an attribute that is None.
NoneRef == 0
\* The heap position of the MarginRankingLoss built when the `def __init__`
\* statement is executed: the default value of `criterion`.
DefaultCriterion == 1

Instances == {"m1", "m2"}
\* The instance the scoring specification constructs and scores with.
Scored == {"m1"}

VARIABLES triples_factory, models, heap, result, comb, comb_out

vars == <<triples_factory, models, heap, result, comb, comb_out>>

----------------------------------------------------------------------------
(* Framework primitives                                                    *)

\* The k-th tensor drawn after torch.manual_seed(seed): a fixed pseudo-random
\* stream of small integers standing for the normal initialisation.
Normal(seed, k, row, col) ==
    LET base == <<0, 7, 5, 4>>[k + 1]
        mult == <<5, 6, 3, 4>>[k + 1]
    IN  ((base + seed * mult + row * 3 + col * 2 + k * row * col + row * row) % 9) - 4

\* nn.Embedding(num_embeddings, embedding_dim): a fresh weight matrix.
nn_Embedding(num_embeddings, embedding_dim, seed, k) ==
    [kind |-> "Embedding",
     weight |-> [row \in 0..(num_embeddings - 1) |->
                    [col \in 0..(embedding_dim - 1) |-> Normal(seed, k, row, col)]]]

\* nn.MarginRankingLoss(margin=1., reduction='mean').
nn_MarginRankingLoss == [kind |-> "MarginRankingLoss", weight |-> <<>>]

\* A lookup with Python's indexing rule, where -1 names the last row.
LookupWrapping(emb, ind) ==
    LET w == heap[emb].weight
        n == Cardinality(DOMAIN w)
    IN  IF \A k \in DOMAIN ind : ind[k] \in (0 - n)..(n - 1)
        THEN [err |-> FALSE, val |-> [k \in DOMAIN ind |-> w[(ind[k] + n) % n]]]
        ELSE [err |-> TRUE, val |-> <<>>]

\* self.<table>(ind): the rows of the table at the indices, or an IndexError
\* when an index is not a row of the table.
Lookup(emb, ind) ==
    LET w == heap[emb].weight
    IN  IF \A k \in DOMAIN ind : ind[k] \in DOMAIN w
        THEN [err |-> FALSE, val |-> [k \in DOMAIN ind |-> w[ind[k]]]]
        ELSE [err |-> TRUE, val |-> <<>>]

RECURSIVE SumUpTo(_, _)
SumUpTo(v, n) == IF n = 0 THEN 0 ELSE v[n - 1] + SumUpTo(v, n - 1)

\* torch.sum(v, dim=-1) of a vector indexed from 0.
torch_sum(v) == SumUpTo(v, Cardinality(DOMAIN v))

\* 0.5 * n as an exact fraction in lowest terms.
Half(n) == IF n % 2 = 0 THEN [num |-> n \div 2, den |-> 1] ELSE [num |-> n, den |-> 2]

\* The clamp of the reference implementation: Half(n) cut to [-20, 20].
HalfClamped(n) == IF n > 40 THEN Half(40) ELSE IF n < -40 THEN Half(-40) ELSE Half(n)

Raise == [err |-> TRUE, scores |-> <<>>]
Return(s) == [err |-> FALSE, scores |-> s]

\* poem.utils.slice_triples: the head, relation and tail columns of a batch.
slice_triples(batch) ==
    <<[k \in DOMAIN batch |-> batch[k][1]],
      [k \in DOMAIN batch |-> batch[k][2]],
      [k \in DOMAIN batch |-> batch[k][3]]>>

----------------------------------------------------------------------------
(* SimplE scoring: pure functions of the instance record and the heap      *)

forward_owa_inverse_r(self, batch) ==
    LET s == slice_triples(batch)
        hh == Lookup(self.entity_embeddings, s[1])
        ht == Lookup(self.entity_embeddings, s[3])
        th == Lookup(self.tail_entity_embeddings, s[1])
        tt == Lookup(self.tail_entity_embeddings, s[3])
        r == Lookup(self.relation_embeddings, s[2])
        r_inv == Lookup(self.relation_embeddings, s[2])
    IN  IF hh.err \/ ht.err \/ th.err \/ tt.err \/ r.err \/ r_inv.err
        THEN Raise
        ELSE Return([k \in DOMAIN batch |->
                LET score == torch_sum([d \in DOMAIN hh.val[k] |->
                                 hh.val[k][d] * r.val[k][d] * tt.val[k][d]])
                    inverse_score == torch_sum([d \in DOMAIN ht.val[k] |->
                                 ht.val[k][d] * r_inv.val[k][d] * th.val[k][d]])
                IN  Half(score + inverse_score)])

forward_owa_clamped(self, batch) ==
    LET s == slice_triples(batch)
        hh == Lookup(self.entity_embeddings, s[1])
        ht == Lookup(self.entity_embeddings, s[3])
        th == Lookup(self.tail_entity_embeddings, s[1])
        tt == Lookup(self.tail_entity_embeddings, s[3])
        r == Lookup(self.relation_embeddings, s[2])
        r_inv == Lookup(self.inverse_relation_embeddings, s[2])
    IN  IF hh.err \/ ht.err \/ th.err \/ tt.err \/ r.err \/ r_inv.err
        THEN Raise
        ELSE Return([k \in DOMAIN batch |->
                LET score == torch_sum([d \in DOMAIN hh.val[k] |->
                                 hh.val[k][d] * r.val[k][d] * tt.val[k][d]])
                    inverse_score == torch_sum([d \in DOMAIN ht.val[k] |->
                                 ht.val[k][d] * r_inv.val[k][d] * th.val[k][d]])
                IN  HalfClamped(score + inverse_score)])

\* SimplE.forward_owa: one score per triple of the batch.
forward_owa(self, batch) ==
    LET s == slice_triples(batch)
        h_ind == s[1]
        r_ind == s[2]
        t_ind == s[3]
        hh == Lookup(self.entity_embeddings, h_ind)
        ht == Lookup(self.entity_embeddings, t_ind)
        th == Lookup(self.tail_entity_embeddings, h_ind)
        tt == Lookup(self.tail_entity_embeddings, t_ind)
        r == Lookup(self.relation_embeddings, r_ind)
        r_inv == Lookup(self.inverse_relation_embeddings, r_ind)
    IN  IF hh.err \/ ht.err \/ th.err \/ tt.err \/ r.err \/ r_inv.err
        THEN Raise
        ELSE Return([k \in DOMAIN batch |->
                LET score == torch_sum([d \in DOMAIN hh.val[k] |->
                                 hh.val[k][d] * r.val[k][d] * tt.val[k][d]])
                    inverse_score == torch_sum([d \in DOMAIN ht.val[k] |->
                                 ht.val[k][d] * r_inv.val[k][d] * th.val[k][d]])
                IN  Half(score + inverse_score)])

forward_cwa_tail_for_head(self, batch) ==
    LET h_ind == [k \in DOMAIN batch |-> batch[k][1]]
        r_ind == [k \in DOMAIN batch |-> batch[k][2]]
        hh == Lookup(self.entity_embeddings, h_ind)
        th == Lookup(self.tail_entity_embeddings, h_ind)
        r == Lookup(self.relation_embeddings, r_ind)
        r_inv == Lookup(self.inverse_relation_embeddings, r_ind)
        ht == heap[self.entity_embeddings].weight
        tt == heap[self.tail_entity_embeddings].weight
    IN  IF hh.err \/ th.err \/ r.err \/ r_inv.err
        THEN Raise
        ELSE Return([k \in DOMAIN batch |-> [e \in DOMAIN tt |->
                LET score == torch_sum([d \in DOMAIN hh.val[k] |->
                                 hh.val[k][d] * r.val[k][d] * tt[e][d]])
                    inverse_score == torch_sum([d \in DOMAIN ht[e] |->
                                 ht[e][d] * r_inv.val[k][d] * tt[e][d]])
                IN  Half(score + inverse_score)]])

\* SimplE.forward_cwa: for each (head, relation) row, a score for every tail.
forward_cwa(self, batch) ==
    LET h_ind == [k \in DOMAIN batch |-> batch[k][1]]
        r_ind == [k \in DOMAIN batch |-> batch[k][2]]
        hh == Lookup(self.entity_embeddings, h_ind)
        th == Lookup(self.tail_entity_embeddings, h_ind)
        r == Lookup(self.relation_embeddings, r_ind)
        r_inv == Lookup(self.inverse_relation_embeddings, r_ind)
        ht == heap[self.entity_embeddings].weight
        tt == heap[self.tail_entity_embeddings].weight
    IN  IF hh.err \/ th.err \/ r.err \/ r_inv.err
        THEN Raise
        ELSE Return([k \in DOMAIN batch |-> [e \in DOMAIN tt \cap DOMAIN ht |->
                LET score == torch_sum([d \in DOMAIN hh.val[k] |->
                                 hh.val[k][d] * r.val[k][d] * tt[e][d]])
                    inverse_score == torch_sum([d \in DOMAIN ht[e] |->
                                 ht[e][d] * r_inv.val[k][d] * th.val[k][d]])
                IN  Half(score + inverse_score)]])

forward_inverse_cwa_swapped_columns(self, batch) ==
    LET r_ind == [k \in DOMAIN batch |-> batch[k][2]]
        t_ind == [k \in DOMAIN batch |-> batch[k][1]]
        hh == heap[self.entity_embeddings].weight
        ht == Lookup(self.entity_embeddings, t_ind)
        th == heap[self.tail_entity_embeddings].weight
        tt == Lookup(self.tail_entity_embeddings, t_ind)
        r == Lookup(self.relation_embeddings, r_ind)
        r_inv == Lookup(self.inverse_relation_embeddings, r_ind)
    IN  IF ht.err \/ tt.err \/ r.err \/ r_inv.err
        THEN Raise
        ELSE Return([k \in DOMAIN batch |-> [e \in DOMAIN hh \cap DOMAIN th |->
                LET score == torch_sum([d \in DOMAIN hh[e] |->
                                 hh[e][d] * r.val[k][d] * tt.val[k][d]])
                    inverse_score == torch_sum([d \in DOMAIN ht.val[k] |->
                                 ht.val[k][d] * r_inv.val[k][d] * th[e][d]])
                IN  Half(score + inverse_score)]])

\* torch.sum(..., dim=1): the entity axis is summed away and the embedding
\* axis is kept.
forward_inverse_cwa_sum_entities(self, batch) ==
    LET r_ind == [k \in DOMAIN batch |-> batch[k][1]]
        t_ind == [k \in DOMAIN batch |-> batch[k][2]]
        hh == heap[self.entity_embeddings].weight
        ht == Lookup(self.entity_embeddings, t_ind)
        th == heap[self.tail_entity_embeddings].weight
        tt == Lookup(self.tail_entity_embeddings, t_ind)
        r == Lookup(self.relation_embeddings, r_ind)
        r_inv == Lookup(self.inverse_relation_embeddings, r_ind)
    IN  IF ht.err \/ tt.err \/ r.err \/ r_inv.err
        THEN Raise
        ELSE Return([k \in DOMAIN batch |-> [d \in DOMAIN tt.val[k] |->
                LET score == torch_sum([e \in DOMAIN hh |->
                                 hh[e][d] * r.val[k][d] * tt.val[k][d]])
                    inverse_score == torch_sum([e \in DOMAIN th |->
                                 ht.val[k][d] * r_inv.val[k][d] * th[e][d]])
                IN  Half(score + inverse_score)]])

\* SimplE.forward_inverse_cwa: for each (relation, tail) row, a score for
\* every head.
forward_inverse_cwa(self, batch) ==
    LET r_ind == [k \in DOMAIN batch |-> batch[k][1]]
        t_ind == [k \in DOMAIN batch |-> batch[k][2]]
        hh == heap[self.entity_embeddings].weight
        ht == Lookup(self.entity_embeddings, t_ind)
        th == heap[self.tail_entity_embeddings].weight
        tt == Lookup(self.tail_entity_embeddings, t_ind)
        r == Lookup(self.relation_embeddings, r_ind)
        r_inv == Lookup(self.inverse_relation_embeddings, r_ind)
    IN  IF ht.err \/ tt.err \/ r.err \/ r_inv.err
        THEN Raise
        ELSE Return([k \in DOMAIN batch |-> [e \in DOMAIN hh \cap DOMAIN th |->
                LET score == torch_sum([d \in DOMAIN hh[e] |->
                                 hh[e][d] * r.val[k][d] * tt.val[k][d]])
                    inverse_score == torch_sum([d \in DOMAIN ht.val[k] |->
                                 ht.val[k][d] * r_inv.val[k][d] * th[e][d]])
                IN  Half(score + inverse_score)]])

----------------------------------------------------------------------------
(* The LiteralE combinations                                               *)

\* pykeen.utils.split_complex: the first and the second half of the last axis.
split_complex(x) ==
    LET dim == Len(x) \div 2
    IN  <<SubSeq(x, 1, dim), SubSeq(x, dim + 1, Len(x))>>

\* pykeen.utils.combine_complex: the real part followed by the imaginary part.
combine_complex(x_re, x_im) == x_re \o x_im

\* nn.Dropout(p) in training mode: p = 0.0 keeps its input; p = 0.5 zeroes the
\* masked components and scales the others by 1 / (1 - p) = 2.
nn_Dropout(p, mask, v) ==
    IF p = "0.0" THEN v
    ELSE [k \in 1..Len(v) |-> IF mask[k] THEN 2 * v[k] ELSE 0]

RECURSIVE Dot(_, _, _)
Dot(w, v, n) == IF n = 0 THEN 0 ELSE w[n] * v[n] + Dot(w, v, n - 1)

\* nn.Linear(in_features, out_features): weight . v + bias.
nn_Linear(weight, bias, v) ==
    [j \in 1..Len(weight) |-> Dot(weight[j], v, Len(v)) + bias[j]]

\* torch.nn.Tanh on integers: odd, monotone, saturating at -1 and 1.
nn_Tanh(v) == [k \in 1..Len(v) |-> IF v[k] > 0 THEN 1 ELSE IF v[k] < 0 THEN -1 ELSE 0]

\* nn.Sequential(nn.Dropout(input_dropout), nn.Linear(...), torch.nn.Tanh()).
nn_Sequential(module, mask, v) ==
    nn_Tanh(nn_Linear(module.weight, module.bias, nn_Dropout(module.p, mask, v)))

\* One branch of ComplExLiteralCombination: its dropout rate and the linear
\* layer's parameters, the k-th and (k+1)-th tensors drawn from the seed.
Branch(embedding_dim, num_of_literals, input_dropout, seed, k) ==
    [p |-> input_dropout,
     weight |-> [j \in 1..embedding_dim |->
                    [c \in 1..(embedding_dim + num_of_literals) |-> Normal(seed, k, j, c)]],
     bias |-> [j \in 1..embedding_dim |-> Normal(seed, k + 1, j, 0)]]

\* ComplExLiteralCombination.__init__ and ComplexCombination.__init__.
ComplExLiteralCombination(embedding_dim, num_of_literals, input_dropout, seed) ==
    [real |-> Branch(embedding_dim, num_of_literals, input_dropout, seed, 0),
     imag |-> Branch(embedding_dim, num_of_literals, input_dropout, seed, 2),
     embedding_dim |-> 2 * embedding_dim]

\* The imaginary branch is fed the real half.
ComplexCombination_forward_real_twice(self, x, mask_re, mask_im) ==
    LET xe == SubSeq(x, 1, self.embedding_dim)
        literal == SubSeq(x, self.embedding_dim + 1, Len(x))
        parts == split_complex(xe)
        x_re == nn_Sequential(self.real, mask_re, parts[1] \o literal)
        x_im == nn_Sequential(self.imag, mask_im, parts[1] \o literal)
    IN  combine_complex(x_re, x_im)

\* ComplexCombination.forward.
ComplexCombination_forward(self, x, mask_re, mask_im) ==
    LET xe == SubSeq(x, 1, self.embedding_dim)
        literal == SubSeq(x, self.embedding_dim + 1, Len(x))
        parts == split_complex(xe)
        x_re == nn_Sequential(self.real, mask_re, parts[1] \o literal)
        x_im == nn_Sequential(self.imag, mask_im, parts[2] \o literal)
    IN  combine_complex(x_re, x_im)

----------------------------------------------------------------------------
(* State                                                                   *)

\* An instance before SimplE.__init__ has run.
Unborn ==
    [pc |-> "unborn", num_entities |-> 0, num_relations |-> 0, embedding_dim |-> 0,
     criterion |-> NoneRef, random_seed |-> 0,
     entity_embeddings |-> NoneRef, tail_entity_embeddings |-> NoneRef,
     relation_embeddings |-> NoneRef, inverse_relation_embeddings |-> NoneRef]

\* What the caller holds of its last scoring call: the call, its outcome and
\* whether the call was made more than once.
NoCall ==
    [op |-> "none", self |-> "", batch |-> <<>>, err |-> FALSE, scores |-> <<>>,
     repeated |-> FALSE]

NoComb == [real |-> <<>>, imag |-> <<>>, embedding_dim |-> 0]

NoCombCall == [called |-> FALSE, x |-> <<>>, mask_re |-> <<>>, mask_im |-> <<>>, out |-> <<>>]

\* Python runs one call at a time: no constructor is half-way.
Idle == \A i \in Instances : models[i].pc \in {"unborn", "ready"}

\* An index outside the table on either side, and every index inside it.
Indices(n) == -1..n

\* x moved on by s places around the indices -1..n.
Shift(x, s, n) == ((x + 1 + s + (n + 2) * MaxBatch) % (n + 2)) - 1

\* How a batch's rows follow one another: the step of the head, the relation
\* and the tail from one row to the next.
Strides == {<<1, 0, -1>>, <<1, 1, -1>>, <<0, 0, 0>>}

\* Batches of 1..MaxBatch triples: a first row, and each later row the row
\* before it moved on by a stride.
TripleBatches ==
    LET E == triples_factory.num_entities
        R == triples_factory.num_relations
    IN  { [k \in 1..n |-> <<Shift(h, st[1] * (k - 1), E), Shift(r, st[2] * (k - 1), R),
                            Shift(t, st[3] * (k - 1), E)>>] :
            n \in 1..MaxBatch, h \in Indices(E), r \in Indices(R), t \in Indices(E),
            st \in Strides }

\* Batches of (head, relation) rows.
HeadRelationBatches ==
    LET E == triples_factory.num_entities
        R == triples_factory.num_relations
    IN  { [k \in 1..n |-> <<Shift(h, st[1] * (k - 1), E), Shift(r, st[2] * (k - 1), R)>>] :
            n \in 1..MaxBatch, h \in Indices(E), r \in Indices(R), st \in Strides }

\* Batches of (relation, tail) rows.
RelationTailBatches ==
    LET E == triples_factory.num_entities
        R == triples_factory.num_relations
    IN  { [k \in 1..n |-> <<Shift(r, st[2] * (k - 1), R), Shift(t, st[3] * (k - 1), E)>>] :
            n \in 1..MaxBatch, r \in Indices(R), t \in Indices(E), st \in Strides }

Init ==
    /\ triples_factory \in [num_entities : 1..MaxEntities, num_relations : 1..MaxRelations]
    /\ models = [i \in Instances |-> Unborn]
    /\ heap = <<nn_MarginRankingLoss>>
    /\ result = NoCall
    /\ comb = NoComb
    /\ comb_out = NoCombCall

----------------------------------------------------------------------------
(* SimplE: construction                                                    *)

\* BaseModule.__init__: the attributes every model gets; the entity table is
\* not built yet.
BaseModule__init__(embedding_dim, criterion, random_seed) ==
    [pc |-> "after_super",
     num_entities |-> triples_factory.num_entities,
     num_relations |-> triples_factory.num_relations,
     embedding_dim |-> embedding_dim,
     criterion |-> criterion,
     random_seed |-> random_seed,
     entity_embeddings |-> NoneRef, tail_entity_embeddings |-> NoneRef,
     relation_embeddings |-> NoneRef, inverse_relation_embeddings |-> NoneRef]

\* SimplE(triples_factory, embedding_dim=..., random_seed=...): criterion is
\* left to its default, the object the def statement built.
SimplE__init__default(i, embedding_dim, random_seed) ==
    /\ Idle
    /\ models[i].pc = "unborn"
    /\ models' = [models EXCEPT ![i] =
                    BaseModule__init__(embedding_dim, DefaultCriterion, random_seed)]
    /\ result' = NoCall
    /\ UNCHANGED <<triples_factory, heap, comb, comb_out>>

\* SimplE(triples_factory, criterion=nn.MarginRankingLoss(...), ...): the
\* caller builds a criterion of its own.
SimplE__init__criterion(i, embedding_dim, random_seed) ==
    /\ Idle
    /\ models[i].pc = "unborn"
    /\ heap' = Append(heap, nn_MarginRankingLoss)
    /\ models' = [models EXCEPT ![i] =
                    BaseModule__init__(embedding_dim, Len(heap) + 1, random_seed)]
    /\ result' = NoCall
    /\ UNCHANGED <<triples_factory, comb, comb_out>>

\* self.relation_embeddings = None
SimplE__init__placeholder(i) ==
    /\ models[i].pc = "after_super"
    /\ models' = [models EXCEPT ![i].relation_embeddings = NoneRef,
                                ![i].pc = "placeholder"]
    /\ UNCHANGED <<triples_factory, heap, result, comb, comb_out>>

\* BaseModule._init_embeddings: the entity table, allocated at heap position at.
BaseModule_init_embeddings(self, at) ==
    [self EXCEPT !.entity_embeddings = at]

\* _init_embeddings without the assignment to relation_embeddings.
SimplE_init_embeddings_no_relation(self, at) ==
    [BaseModule_init_embeddings(self, at + 1) EXCEPT
        !.tail_entity_embeddings = at + 2,
        !.inverse_relation_embeddings = at + 4]

\* SimplE._init_embeddings: the attributes after it, its four tables being
\* allocated at heap positions at+1 .. at+4.
SimplE_init_embeddings(self, at) ==
    [BaseModule_init_embeddings(self, at + 1) EXCEPT
        !.tail_entity_embeddings = at + 2,
        !.relation_embeddings = at + 3,
        !.inverse_relation_embeddings = at + 4]

\* self._init_embeddings(), after which the constructor returns.
SimplE__init__init_embeddings(i) ==
    LET self == models[i]
    IN  /\ self.pc = "placeholder"
        /\ heap' = heap \o
             <<nn_Embedding(self.num_entities, self.embedding_dim, self.random_seed, 0),
               nn_Embedding(self.num_entities, self.embedding_dim, self.random_seed, 1),
               nn_Embedding(self.num_relations, self.embedding_dim, self.random_seed, 2),
               nn_Embedding(self.num_relations, self.embedding_dim, self.random_seed, 3)>>
        /\ models' = [models EXCEPT ![i] =
                        [SimplE_init_embeddings(self, Len(heap)) EXCEPT !.pc = "ready"]]
        /\ UNCHANGED <<triples_factory, result, comb, comb_out>>

----------------------------------------------------------------------------
(* SimplE: scoring calls                                                   *)

Called(op, i, batch, outcome, repeated) ==
    [op |-> op, self |-> i, batch |-> batch, err |-> outcome.err, scores |-> outcome.scores,
     repeated |-> repeated]

\* The caller holds no scores and calls self.forward_owa(batch).
ForwardOwa(i, batch) ==
    /\ Idle
    /\ result = NoCall
    /\ models[i].pc = "ready"
    /\ result' = Called("forward_owa", i, batch, forward_owa(models[i], batch), FALSE)
    /\ UNCHANGED <<triples_factory, models, heap, comb, comb_out>>

\* forward_cwa multiplying into entity_embeddings.weight in place.
ForwardCwaInPlace(i, batch) ==
    LET self == models[i]
        outcome == forward_cwa(self, batch)
        r_inv == Lookup(self.inverse_relation_embeddings, [k \in DOMAIN batch |-> batch[k][2]])
        ht == heap[self.entity_embeddings].weight
    IN  /\ Idle
        /\ result = NoCall
        /\ self.pc = "ready"
        /\ result' = Called("forward_cwa", i, batch, outcome, FALSE)
        /\ heap' = IF outcome.err THEN heap
                   ELSE [heap EXCEPT ![self.entity_embeddings].weight =
                            [e \in DOMAIN ht |-> [d \in DOMAIN ht[e] |->
                                ht[e][d] * r_inv.val[1][d]]]]
        /\ UNCHANGED <<triples_factory, models, comb, comb_out>>

\* The caller holds no scores and calls self.forward_cwa(batch).
ForwardCwa(i, batch) ==
    /\ Idle
    /\ result = NoCall
    /\ models[i].pc = "ready"
    /\ result' = Called("forward_cwa", i, batch, forward_cwa(models[i], batch), FALSE)
    /\ UNCHANGED <<triples_factory, models, heap, comb, comb_out>>

\* The caller holds no scores and calls self.forward_inverse_cwa(batch).
ForwardInverseCwa(i, batch) ==
    /\ Idle
    /\ result = NoCall
    /\ models[i].pc = "ready"
    /\ result' = Called("forward_inverse_cwa", i, batch,
                        forward_inverse_cwa(models[i], batch), FALSE)
    /\ UNCHANGED <<triples_factory, models, heap, comb, comb_out>>

\* The caller makes the call it made last once more, on the same batch.
Again ==
    /\ result # NoCall
    /\ result' = Called(result.op, result.self, result.batch,
                    IF result.op = "forward_owa"
                    THEN forward_owa(models[result.self], result.batch)
                    ELSE IF result.op = "forward_cwa"
                    THEN forward_cwa(models[result.self], result.batch)
                    ELSE forward_inverse_cwa(models[result.self], result.batch),
                    TRUE)
    /\ UNCHANGED <<triples_factory, models, heap, comb, comb_out>>

\* The caller lets go of the scores (or of the error) it got.
Drop ==
    /\ result # NoCall
    /\ result' = NoCall
    /\ UNCHANGED <<triples_factory, models, heap, comb, comb_out>>

Construct(i) ==
    \/ \E d \in 1..MaxDim, seed \in 0..MaxSeed : SimplE__init__default(i, d, seed)
    \/ \E d \in 1..MaxDim, seed \in 0..MaxSeed : SimplE__init__criterion(i, d, seed)
    \/ SimplE__init__placeholder(i)
    \/ SimplE__init__init_embeddings(i)

\* The constructor of i has returned and no call is under way.
Callable(i) == Idle /\ models[i].pc = "ready" /\ result = NoCall

\* One model: built, then scored in the three modes.
Next ==
    \E i \in Scored :
        \/ Construct(i)
        \/ Callable(i) /\ \E batch \in TripleBatches : ForwardOwa(i, batch)
        \/ Callable(i) /\ \E batch \in HeadRelationBatches : ForwardCwa(i, batch)
        \/ Callable(i) /\ \E batch \in RelationTailBatches : ForwardInverseCwa(i, batch)
        \/ Again
        \/ Drop

Spec == Init /\ [][Next]_vars

\* Several models built in one process.
NextTwo == \E i \in Instances : Construct(i)

SpecTwo == Init /\ [][NextTwo]_vars

----------------------------------------------------------------------------
(* ComplExLiteralCombination: a constructed module and calls of forward    *)

CombValues == {-1, 2}

Masks(p, n) ==
    IF p = "0.0" THEN {[k \in 1..n |-> TRUE]}
    ELSE {[k \in 1..n |-> TRUE], [k \in 1..n |-> k % 2 = 0], [k \in 1..n |-> k % 2 = 1]}

InitComb ==
    /\ triples_factory = [num_entities |-> 1, num_relations |-> 1]
    /\ models = [i \in Instances |-> Unborn]
    /\ heap = <<nn_MarginRankingLoss>>
    /\ result = NoCall
    /\ \E d \in 1..MaxDim, l \in 0..MaxLiterals, p \in {"0.0", "0.5"}, seed \in 0..MaxSeed :
          comb = ComplExLiteralCombination(d, l, p, seed)
    /\ comb_out = NoCombCall

\* The width of one branch's input: embedding_dim + num_of_literals.
BranchWidth == Len(comb.real.weight[1])

\* The caller holds no output and calls the module on x; the masks are the
\* dropout layers' random draws of this call.
CombForward(x, mask_re, mask_im) ==
    /\ comb_out = NoCombCall
    /\ comb_out' = [called |-> TRUE, x |-> x, mask_re |-> mask_re, mask_im |-> mask_im,
                    out |-> ComplexCombination_forward(comb, x, mask_re, mask_im)]
    /\ UNCHANGED <<triples_factory, models, heap, result, comb>>

\* The caller lets go of the output.
CombDrop ==
    /\ comb_out # NoCombCall
    /\ comb_out' = NoCombCall
    /\ UNCHANGED <<triples_factory, models, heap, result, comb>>

NextComb ==
    \/ CombDrop
    \/ comb_out = NoCombCall /\ \E x \in [1..(comb.embedding_dim \div 2 + BranchWidth) -> CombValues] :
        \E mask_re \in Masks(comb.real.p, BranchWidth), mask_im \in Masks(comb.imag.p, BranchWidth) :
            CombForward(x, mask_re, mask_im)

SpecComb == InitComb /\ [][NextComb]_vars

----------------------------------------------------------------------------
(* Properties                                                              *)

Weight(ref) == heap[ref].weight

RECURSIVE TripleProduct(_, _, _, _)
\* The sum over d in 0..n-1 of a[d] * b[d] * c[d].
TripleProduct(a, b, c, n) ==
    IF n = 0 THEN 0 ELSE a[n - 1] * b[n - 1] * c[n - 1] + TripleProduct(a, b, c, n - 1)

ValidEntity(self, x) == x \in 0..(self.num_entities - 1)
ValidRelation(self, x) == x \in 0..(self.num_relations - 1)

\* Every index of the batch names a row of the table it is looked up in.
ValidBatch(op, self, batch) ==
    \A k \in 1..Len(batch) :
        IF op = "forward_owa"
        THEN ValidEntity(self, batch[k][1]) /\ ValidRelation(self, batch[k][2])
                /\ ValidEntity(self, batch[k][3])
        ELSE IF op = "forward_cwa"
        THEN ValidEntity(self, batch[k][1]) /\ ValidRelation(self, batch[k][2])
        ELSE ValidRelation(self, batch[k][1]) /\ ValidEntity(self, batch[k][2])

\* The score forward_owa gives the single triple (h, r, t).
OwaScore(self, h, r, t) == forward_owa(self, << <<h, r, t>> >>).scores[1]

\* C1: on a batch of valid triples forward_owa returns, for each triple
\* (h, r, t), exactly half of CP + inverse CP, where CP is the sum over d of
\* entity[h][d] * relation[r][d] * tail_entity[t][d] and inverse CP the sum of
\* entity[t][d] * inverse_relation[r][d] * tail_entity[h][d]; nothing is clamped.
C1_OwaIsHalfOfCPPlusInverse ==
    (result.op = "forward_owa" /\ ValidBatch("forward_owa", models[result.self], result.batch)) =>
        LET self == models[result.self]
            n == self.embedding_dim
        IN  /\ ~result.err
            /\ \A k \in 1..Len(result.batch) :
                LET h == result.batch[k][1]
                    r == result.batch[k][2]
                    t == result.batch[k][3]
                    cp == TripleProduct(Weight(self.entity_embeddings)[h],
                                        Weight(self.relation_embeddings)[r],
                                        Weight(self.tail_entity_embeddings)[t], n)
                    icp == TripleProduct(Weight(self.entity_embeddings)[t],
                                         Weight(self.inverse_relation_embeddings)[r],
                                         Weight(self.tail_entity_embeddings)[h], n)
                IN  /\ result.scores[k].den \in {1, 2}
                    /\ 2 * result.scores[k].num = (cp + icp) * result.scores[k].den

\* A batch of two valid triples was scored and one score lies outside [-20, 20].
C1_Witness ==
    /\ result.op = "forward_owa"
    /\ ~result.err
    /\ Len(result.batch) >= 2
    /\ \E k \in 1..Len(result.batch) :
          \/ result.scores[k].num > 20 * result.scores[k].den
          \/ result.scores[k].num < (0 - 20) * result.scores[k].den

\* C2: on a batch of valid (head, relation) rows, forward_cwa's entry for row k
\* and entity e is the score forward_owa gives the triple (head_k, relation_k, e).
C2_CwaAgreesWithOwa ==
    (result.op = "forward_cwa" /\ ValidBatch("forward_cwa", models[result.self], result.batch)) =>
        LET self == models[result.self]
        IN  /\ ~result.err
            /\ \A k \in 1..Len(result.batch) : \A e \in 0..(self.num_entities - 1) :
                  result.scores[k][e] = OwaScore(self, result.batch[k][1], result.batch[k][2], e)

\* Two valid (head, relation) rows were scored against two or more tails whose
\* scores differ.
C2_Witness ==
    /\ result.op = "forward_cwa"
    /\ ~result.err
    /\ Len(result.batch) >= 2
    /\ models[result.self].num_entities >= 2
    /\ result.scores[1][0] # result.scores[1][1]

\* C3: on a batch of valid (relation, tail) rows, forward_inverse_cwa's entry for
\* row k and entity e is the score forward_owa gives the triple
\* (e, relation_k, tail_k).
C3_InverseCwaAgreesWithOwa ==
    (result.op = "forward_inverse_cwa"
        /\ ValidBatch("forward_inverse_cwa", models[result.self], result.batch)) =>
        LET self == models[result.self]
        IN  /\ ~result.err
            /\ \A k \in 1..Len(result.batch) : \A e \in 0..(self.num_entities - 1) :
                  result.scores[k][e] = OwaScore(self, e, result.batch[k][1], result.batch[k][2])

\* Two valid (relation, tail) rows were scored against two or more heads whose
\* scores differ.
C3_Witness ==
    /\ result.op = "forward_inverse_cwa"
    /\ ~result.err
    /\ Len(result.batch) >= 2
    /\ models[result.self].num_entities >= 2
    /\ result.scores[2][0] # result.scores[2][1]

\* C4: on a valid batch of B rows forward_owa returns B scores, and forward_cwa
\* and forward_inverse_cwa return B rows of num_entities scores each.
C4_OutputShapes ==
    (result.op # "none" /\ ValidBatch(result.op, models[result.self], result.batch)) =>
        LET self == models[result.self]
            B == Len(result.batch)
        IN  /\ ~result.err
            /\ DOMAIN result.scores = 1..B
            /\ IF result.op = "forward_owa"
               THEN \A k \in 1..B : DOMAIN result.scores[k] = {"num", "den"}
               ELSE \A k \in 1..B :
                      /\ DOMAIN result.scores[k] = 0..(self.num_entities - 1)
                      /\ \A e \in 0..(self.num_entities - 1) :
                            DOMAIN result.scores[k][e] = {"num", "den"}

\* forward_inverse_cwa returned a table for two rows, with a number of entities
\* that is not the embedding dimension.
C4_Witness ==
    /\ result.op = "forward_inverse_cwa"
    /\ ~result.err
    /\ Len(result.batch) = 2
    /\ models[result.self].num_entities # models[result.self].embedding_dim

\* C5: a scoring call changes no instance and no object of the heap, so the
\* four tables keep their contents, and a call made again on the same batch
\* has the outcome it had before.
C5_ScoringLeavesEmbeddings ==
    [][result'.op # "none" =>
          /\ heap' = heap
          /\ models' = models
          /\ (result.op # "none" =>
                /\ result'.op = result.op /\ result'.batch = result.batch
                /\ result'.err = result.err /\ result'.scores = result.scores)]_vars

\* A call that returned scores was made a second time.
C5_Witness ==
    /\ result.op = "forward_cwa"
    /\ ~result.err
    /\ result.repeated

\* The table at ref is an nn.Embedding with rows 0..rows-1 of cols components.
IsTable(ref, rows, cols) ==
    /\ ref # NoneRef
    /\ ref \in 1..Len(heap)
    /\ heap[ref].kind = "Embedding"
    /\ DOMAIN heap[ref].weight = 0..(rows - 1)
    /\ \A row \in 0..(rows - 1) : DOMAIN heap[ref].weight[row] = 0..(cols - 1)

\* C6: once the constructor has returned, and in every state after it, the
\* entity and tail-entity tables have num_entities rows, the relation and
\* inverse-relation tables have num_relations rows, every row has
\* embedding_dim components, and relation_embeddings is not None.
C6_TablesOwnedAfterConstruction ==
    \A i \in Instances :
        models[i].pc = "ready" =>
            /\ models[i].relation_embeddings # NoneRef
            /\ models[i].num_entities = triples_factory.num_entities
            /\ models[i].num_relations = triples_factory.num_relations
            /\ IsTable(models[i].entity_embeddings, models[i].num_entities,
                       models[i].embedding_dim)
            /\ IsTable(models[i].tail_entity_embeddings, models[i].num_entities,
                       models[i].embedding_dim)
            /\ IsTable(models[i].relation_embeddings, models[i].num_relations,
                       models[i].embedding_dim)
            /\ IsTable(models[i].inverse_relation_embeddings, models[i].num_relations,
                       models[i].embedding_dim)

\* A constructed instance has been scored with, and the call raised.
C6_Witness ==
    /\ \E i \in Instances : models[i].pc = "ready" /\ result.self = i
    /\ result.op = "forward_owa"
    /\ result.err

\* C7: a scoring call on a batch holding an entity index outside
\* 0..num_entities-1 or a relation index outside 0..num_relations-1 ends in an
\* error, returns no scores and changes no table.
C7_InvalidIndexRaises ==
    [][(result'.op # "none"
          /\ ~ValidBatch(result'.op, models[result'.self], result'.batch)) =>
          /\ result'.err
          /\ result'.scores = <<>>
          /\ heap' = heap
          /\ models' = models]_vars

\* forward_inverse_cwa raised on a batch whose first row is valid and whose
\* second row holds the index -1.
C7_Witness ==
    /\ result.op = "forward_inverse_cwa"
    /\ result.err
    /\ Len(result.batch) = 2
    /\ ValidBatch(result.op, models[result.self], <<result.batch[1]>>)
    /\ (result.batch[2][1] = -1 \/ result.batch[2][2] = -1)

\* The objects an instance holds.
Held(i) ==
    {models[i].criterion, models[i].entity_embeddings, models[i].tail_entity_embeddings,
     models[i].relation_embeddings, models[i].inverse_relation_embeddings} \ {NoneRef}

\* C8: two SimplE instances, also two built with all default arguments, hold
\* no object in common: neither an embedding table nor the criterion.
C8_InstancesShareNothing ==
    \A i \in Instances : \A j \in Instances \ {i} : Held(i) \cap Held(j) = {}

\* C9: the output of ComplexCombination.forward has 2 * embedding_dim
\* components; its first half is `real` applied to the real half of the input
\* followed by the literal, its second half is `imag` applied to the imaginary
\* half followed by the same literal; another imaginary half in the input
\* leaves the real half of the output as it is, and the other way round.
C9_CombinationSplitsAndRecombines ==
    comb_out.called =>
        LET d == comb.embedding_dim \div 2
            x == comb_out.x
            re == SubSeq(x, 1, d)
            im == SubSeq(x, d + 1, 2 * d)
            lit == SubSeq(x, 2 * d + 1, Len(x))
            out == comb_out.out
            Other(y) == ComplexCombination_forward(comb, y, comb_out.mask_re, comb_out.mask_im)
        IN  /\ Len(out) = 2 * d
            /\ SubSeq(out, 1, d) = nn_Sequential(comb.real, comb_out.mask_re, re \o lit)
            /\ SubSeq(out, d + 1, 2 * d) = nn_Sequential(comb.imag, comb_out.mask_im, im \o lit)
            /\ \A im2 \in [1..d -> CombValues] :
                  SubSeq(Other(re \o im2 \o lit), 1, d) = SubSeq(out, 1, d)
            /\ \A re2 \in [1..d -> CombValues] :
                  SubSeq(Other(re2 \o im \o lit), d + 1, 2 * d) = SubSeq(out, d + 1, 2 * d)

\* The module was called with a literal, two or more complex dimensions and
\* active dropout, on an input whose real and imaginary halves differ.
C9_Witness ==
    /\ comb_out.called
    /\ comb.embedding_dim >= 4
    /\ Len(comb_out.x) > comb.embedding_dim
    /\ comb.real.p = "0.5"
    /\ SubSeq(comb_out.x, 1, comb.embedding_dim \div 2)
          # SubSeq(comb_out.x, comb.embedding_dim \div 2 + 1, comb.embedding_dim)
    /\ \E k \in 1..Len(comb_out.out) : comb_out.out[k] # 0

\* The instance with relation_embeddings and inverse_relation_embeddings exchanged.
Exchanged(self) ==
    [self EXCEPT !.relation_embeddings = self.inverse_relation_embeddings,
                 !.inverse_relation_embeddings = self.relation_embeddings]

\* C10: the forward_owa score of a valid triple (h, r, t) is the forward_owa
\* score of (t, r, h) after relation_embeddings and inverse_relation_embeddings
\* are exchanged; where the two tables agree on r, it is the score of (t, r, h).
C10_SymmetricUnderInversion ==
    (result.op = "forward_owa" /\ ~result.err) =>
        LET self == models[result.self]
        IN  \A k \in 1..Len(result.batch) :
              LET h == result.batch[k][1]
                  r == result.batch[k][2]
                  t == result.batch[k][3]
              IN  /\ result.scores[k] = OwaScore(Exchanged(self), t, r, h)
                  /\ (Weight(self.relation_embeddings)[r]
                        = Weight(self.inverse_relation_embeddings)[r])
                        => result.scores[k] = OwaScore(self, t, r, h)

\* One batch held a triple with distinct head and tail whose relation and
\* inverse relation embeddings differ, scored unlike its reversal, and a triple
\* with distinct head and tail whose two relation embeddings agree, with a
\* score other than 0.
C10_Witness ==
    /\ result.op = "forward_owa"
    /\ ~result.err
    /\ LET self == models[result.self]
           Agree(k) == Weight(self.relation_embeddings)[result.batch[k][2]]
                          = Weight(self.inverse_relation_embeddings)[result.batch[k][2]]
       IN  /\ \E k \in 1..Len(result.batch) :
                /\ result.batch[k][1] # result.batch[k][3]
                /\ ~Agree(k)
                /\ result.scores[k]
                      # OwaScore(self, result.batch[k][3], result.batch[k][2], result.batch[k][1])
           /\ \E k \in 1..Len(result.batch) :
                /\ result.batch[k][1] # result.batch[k][3]
                /\ Agree(k)
                /\ result.scores[k].num # 0

====
